---- MODULE Spec2Model ----
(***************************************************************************)
(* Vendor KYC pipeline of SalonConnect: app/routes/kyc.py (upload_document,*)
(* submit_kyc), app/services/kyc_service.py (the analysis functions),      *)
(* app/models/kyc.py (the vendor_kyc and kyc_audit_logs tables) and        *)
(* app/database.py (one SQLAlchemy session per request).                   *)
(*                                                                         *)
(* The committed database is the pair (kyc, audit).  Every request runs in *)
(* a slot with its own session: the session's record `rec` and the set     *)
(* `dirty` of the columns it has assigned are invisible to the other       *)
(* requests until db.commit().  Scores are integers in thousandths, the    *)
(* risk score is an integer in 1/RiskScale.  `call` is the last call of a   *)
(* function of KYCService made on its own, with its arguments and result.  *)
(***************************************************************************)
EXTENDS Integers, Sequences, FiniteSets, TLC

VARIABLES kyc, audit, req, calls, call

vars == <<kyc, audit, req, calls, call>>

-----------------------------------------------------------------------------
(* Bounds and program constants *)

\* total number of handler invocations in a behaviour
MaxCalls == 2

\* gunicorn worker processes: the requests that can be in flight together
workers == 2

\* settings.FACE_MATCHING_THRESHOLD default, in thousandths
FaceThreshold == 750

\* risk scores are stored as risk * RiskScale (12 * tenths, so that the mean
\* of one to four penalty terms given in tenths is an integer)
RiskScale == 12 * 10

\* the approval threshold 0.5 in 1/RiskScale
ApprovalThreshold == RiskScale \div 2

Null == <<>>

Some(v) == <<v>>

Users == {1, 2, 3}

\* users 1 and 2 have role vendor, user 3 has role customer
Role(u) == IF u = 3 THEN "customer" ELSE "vendor"

Slots == 1..workers

\* the KYCVerificationRequest bodies submitted: the confirmed id_number and
\* whether an id_back_url comes with it
SubmitRequests == { [id_number |-> "GHA-111111111-1", back |-> TRUE],
                    [id_number |-> "GHA-222222222-2", back |-> FALSE] }

DocTypes == {"front", "back", "selfie"}

\* the pre-signed URL upload_document_to_s3 returns for user u and kind d
FileUrl(u, d) == [owner |-> u, kind |-> d]

-----------------------------------------------------------------------------
(* Provider outcomes *)

\* A provider answer is: for Rekognition detect_text, an exception or whether
\* text and LINE detections were found and the mean LINE confidence (0..100);
\* for the face comparison, the score each method computes in thousandths
\* (Null: the library is not available in the deployment) and the set of the
\* steps that raise when they are run ("download" is the requests.get of the
\* two images); for the liveness check, an exception (or OpenCV missing) or
\* the four checks.

\* what the three providers answer to one submission
ProviderAnswers ==
    LET docBad   == [error |-> TRUE,  has_text |-> FALSE, has_printed_text |-> FALSE, text_confidence |-> 0]
        docGood  == [error |-> FALSE, has_text |-> TRUE,  has_printed_text |-> TRUE,  text_confidence |-> 92]
        faceErr  == [raises |-> {"face_recognition", "deepface", "aws_rekognition"}, face_recognition |-> Some(900), deepface |-> Null, aws_rekognition |-> Some(940)]
        faceYes  == [raises |-> {}, face_recognition |-> Some(900), deepface |-> Null, aws_rekognition |-> Some(940)]
        faceNo   == [raises |-> {}, face_recognition |-> Some(900), deepface |-> Some(600), aws_rekognition |-> Some(0)]
        liveYes  == [error |-> FALSE, single_face |-> TRUE, image_quality |-> TRUE, brightness_ok |-> TRUE, face_size_ok |-> TRUE]
        liveNo   == [error |-> FALSE, single_face |-> TRUE, image_quality |-> FALSE, brightness_ok |-> TRUE, face_size_ok |-> TRUE]
    IN  { <<docGood, faceYes, liveYes>>, <<docBad, faceYes, liveYes>>,
          <<docGood, faceNo, liveYes>>, <<docGood, faceErr, liveYes>>,
          <<docGood, faceYes, liveNo>> }

-----------------------------------------------------------------------------
(* app/services/kyc_service.py *)

RECURSIVE SumSeq(_)
SumSeq(s) == IF s = <<>> THEN 0 ELSE Head(s) + SumSeq(Tail(s))

\* an entry of TextDetections is a LINE
IsLine(x) == x.Type = "LINE"

\* the Confidence values of a list of detections
RECURSIVE Confidences(_)
Confidences(dets) ==
    IF dets = <<>> THEN <<>> ELSE <<Head(dets).Confidence>> \o Confidences(Tail(dets))

\* security_checks of verify_document_authenticity for the TextDetections
\* dets of the front image (lines 205-216).  np.mean of no LINE at all is
\* nan, which compares false with 80; it is 0 here, and the confidence of an
\* invalid document is read nowhere
security_checks(dets) ==
    LET lines == Confidences(SelectSeq(dets, IsLine))
    IN  [error |-> FALSE,
         has_text |-> Len(dets) > 0,
         has_printed_text |-> lines # <<>>,
         text_confidence |-> IF lines = <<>> THEN 0 ELSE SumSeq(lines) \div Len(lines)]

\* what the try block of verify_document_authenticity comes to: front is the
\* download and detect_text of the front image, back is "none" without a
\* back_url, "fetched" or "raises" for the download of the back image
DocumentAnswer(front, back) ==
    IF front.raises \/ back = "raises"
    THEN [error |-> TRUE, has_text |-> FALSE, has_printed_text |-> FALSE, text_confidence |-> 0]
    ELSE security_checks(front.TextDetections)

\* verify_document_authenticity accepting a confidence of exactly 80
verify_document_authenticity_from_80(d) ==
    IF d.error
    THEN [is_valid |-> FALSE, has_confidence |-> FALSE, confidence |-> 0]
    ELSE [is_valid |-> d.has_text /\ d.has_printed_text /\ d.text_confidence >= 80,
          has_confidence |-> TRUE,
          confidence |-> d.text_confidence]

\* verify_document_authenticity
verify_document_authenticity(d) ==
    IF d.error
    THEN [is_valid |-> FALSE, has_confidence |-> FALSE, confidence |-> 0]
    ELSE [is_valid |-> d.has_text /\ d.has_printed_text /\ d.text_confidence > 80,
          has_confidence |-> TRUE,
          confidence |-> d.text_confidence]

\* MethodScores with a 0 for a method that is not available
MethodScoresOfAll(f) ==
    (IF f.face_recognition = Null THEN <<0>> ELSE f.face_recognition)
    \o (IF f.deepface = Null THEN <<0>> ELSE f.deepface)
    \o f.aws_rekognition

\* the methods_scores values of compare_faces, in insertion order
MethodScores(f) == f.face_recognition \o f.deepface \o f.aws_rekognition

\* round(x, 3) of the mean of the scores s (thousandths)
RoundedMean(s) == (2 * SumSeq(s) + Len(s)) \div (2 * Len(s))

\* the steps of compare_faces that can raise, in the order they are run
FaceSteps == {"download", "face_recognition", "deepface", "aws_rekognition"}

\* a step of compare_faces that is run raises: the images are always
\* downloaded, a method is run when its library is available
Raises(f) == \E m \in f.raises : m = "download" \/ f[m] # Null

\* compare_faces; degraded is Null where the result has no such key
compare_faces(f) ==
    IF f.face_recognition = Null /\ f.deepface = Null
    THEN [score |-> 0, is_match |-> FALSE, error |-> TRUE, degraded |-> Some(TRUE)]
    ELSE IF Raises(f)
    THEN [score |-> 0, is_match |-> FALSE, error |-> TRUE, degraded |-> Null]
    ELSE IF MethodScores(f) = <<>>
    THEN [score |-> 0, is_match |-> FALSE, error |-> TRUE, degraded |-> Some(TRUE)]
    ELSE [score |-> RoundedMean(MethodScores(f)),
          is_match |-> SumSeq(MethodScores(f)) >= FaceThreshold * Len(MethodScores(f)),
          error |-> FALSE,
          degraded |-> Some(f.face_recognition = Null \/ f.deepface = Null)]

\* check_liveness answering 'low' when the check cannot be run
check_liveness_low_on_error(l) ==
    IF l.error
    THEN [is_live |-> FALSE, confidence |-> "low"]
    ELSE [is_live |-> l.single_face /\ l.image_quality /\ l.brightness_ok /\ l.face_size_ok,
          confidence |-> IF l.single_face /\ l.image_quality /\ l.brightness_ok /\ l.face_size_ok
                         THEN "high" ELSE "low"]

\* check_liveness
check_liveness(l) ==
    IF l.error
    THEN [is_live |-> FALSE, confidence |-> "unknown"]
    ELSE [is_live |-> l.single_face /\ l.image_quality /\ l.brightness_ok /\ l.face_size_ok,
          confidence |-> IF l.single_face /\ l.image_quality /\ l.brightness_ok /\ l.face_size_ok
                         THEN "high" ELSE "low"]

\* RiskFactors with a term of 0 for every penalty that does not apply
RiskFactorsOfAll(doc, face, live, id_number) ==
    <<IF ~doc.is_valid THEN 5
      ELSE IF (IF doc.has_confidence THEN doc.confidence ELSE 0) < 70 THEN 3 ELSE 0,
      IF ~face.is_match THEN 6 ELSE IF face.score < 800 THEN 2 ELSE 0,
      IF ~live.is_live THEN 7 ELSE 0,
      IF id_number = Null \/ Len(id_number[1]) < 6 THEN 4 ELSE 0>>

\* calculate_risk_score: the penalty terms in tenths; id_number is
\* kyc_data.get('id_number', '') with Null for the missing key
RiskFactors(doc, face, live, id_number) ==
    (IF ~doc.is_valid THEN <<5>>
     ELSE IF (IF doc.has_confidence THEN doc.confidence ELSE 0) < 70 THEN <<3>>
     ELSE <<>>)
    \o (IF ~face.is_match THEN <<6>>
        ELSE IF face.score < 800 THEN <<2>>
        ELSE <<>>)
    \o (IF ~live.is_live THEN <<7>> ELSE <<>>)
    \o (IF id_number = Null \/ Len(id_number[1]) < 6 THEN <<4>> ELSE <<>>)

\* calculate_risk_score adding the penalty terms up
calculate_risk_score_sum(doc, face, live, id_number) ==
    SumSeq(RiskFactors(doc, face, live, id_number)) * (RiskScale \div 10)

calculate_risk_score(doc, face, live, id_number) ==
    LET rf == RiskFactors(doc, face, live, id_number)
    IN  IF rf = <<>> THEN RiskScale \div 10
        ELSE (SumSeq(rf) * (RiskScale \div 10)) \div Len(rf)

\* generate_recommendations with the liveness message ahead of the face one
generate_recommendations_liveness_first(doc, face, live, is_approved) ==
    LET recs == (IF ~doc.is_valid THEN <<"document_invalid">> ELSE <<>>)
                \o (IF ~live.is_live THEN <<"not_live">> ELSE <<>>)
                \o (IF ~face.is_match THEN <<"face_mismatch">> ELSE <<>>)
                \o (IF face.score < 700 THEN <<"low_confidence">> ELSE <<>>)
    IN  IF recs = <<>> /\ is_approved THEN <<"all_checks_passed">> ELSE recs

\* generate_recommendations: the messages, in the order they are joined
generate_recommendations(doc, face, live, is_approved) ==
    LET recs == (IF ~doc.is_valid THEN <<"document_invalid">> ELSE <<>>)
                \o (IF ~face.is_match THEN <<"face_mismatch">> ELSE <<>>)
                \o (IF ~live.is_live THEN <<"not_live">> ELSE <<>>)
                \o (IF face.score < 700 THEN <<"low_confidence">> ELSE <<>>)
    IN  IF recs = <<>> /\ is_approved THEN <<"all_checks_passed">> ELSE recs

\* IsApproved without the document check
IsApprovedNoDocument(doc, face, live, risk) ==
    face.is_match /\ live.is_live /\ risk <= ApprovalThreshold

\* the decision of perform_full_kyc_analysis
IsApproved(doc, face, live, risk) ==
    doc.is_valid /\ face.is_match /\ live.is_live /\ risk <= ApprovalThreshold

\* perform_full_kyc_analysis on analysis_data, which submit_kyc builds from
\* the three URLs alone: kyc_data carries no 'id_number' key
perform_full_kyc_analysis(d, f, l) ==
    LET doc  == verify_document_authenticity(d)
        face == compare_faces(f)
        live == check_liveness(l)
        risk == calculate_risk_score(doc, face, live, Null)
        ok   == IsApproved(doc, face, live, risk)
    IN  [document_verification |-> doc,
         face_comparison |-> face,
         liveness_check |-> live,
         risk_score |-> risk,
         is_approved |-> ok,
         recommendations |-> generate_recommendations(doc, face, live, ok)]

-----------------------------------------------------------------------------
(* app/models/kyc.py: a vendor_kyc row; its id is its index in kyc *)

Fields == {"vendor_id", "id_number", "id_front_url", "id_back_url", "selfie_url",
           "ocr_extracted_data", "face_match_score", "face_match_status",
           "document_verification_status", "is_document_valid", "is_live_selfie",
           "risk_score", "status", "rejection_reason"}

\* VendorKYC(vendor_id=u): the columns' defaults, NULL where there is none
VendorKYC(u) ==
    [vendor_id |-> u, id_number |-> Null,
     id_front_url |-> Null, id_back_url |-> Null, selfie_url |-> Null,
     ocr_extracted_data |-> Null,
     face_match_score |-> Null, face_match_status |-> Null,
     document_verification_status |-> Null,
     is_document_valid |-> FALSE, is_live_selfie |-> FALSE, risk_score |-> 0,
     status |-> "pending", rejection_reason |-> Null]

\* KYCAuditLog(kyc_id=.., action=.., performed_by=..)
KYCAuditLog(k, a, u) == [kyc_id |-> k, action |-> a, performed_by |-> u]

\* the account attributes submit_kyc assigns on current_user; the users table
\* (app/models/user.py) has no such columns, so they live in the session only
NoGrant == [kyc_verified |-> FALSE, subscription_plan |-> Null,
            subscription_expires_at |-> Null]

NoAnalysis == perform_full_kyc_analysis(
    [error |-> TRUE, has_text |-> FALSE, has_printed_text |-> FALSE, text_confidence |-> 0],
    [raises |-> {"download"}, face_recognition |-> Null, deepface |-> Null, aws_rekognition |-> Some(0)],
    [error |-> TRUE, single_face |-> FALSE, image_quality |-> FALSE, brightness_ok |-> FALSE, face_size_ok |-> FALSE])

\* a free request slot (no session)
Idle == [pc |-> "idle", op |-> "none", user |-> 0, id |-> 0, rec |-> VendorKYC(0),
         dirty |-> {}, analysed |-> FALSE, analysis |-> NoAnalysis,
         acct |-> NoGrant, committed |-> FALSE, err |-> "none"]

\* FirstOf finding no row: every request works on a new object
FirstOfNone(u) == 0

\* db.query(VendorKYC).filter(VendorKYC.vendor_id == u).first(): the id of the
\* first committed row of vendor u, 0 when there is none
FirstOf(u) ==
    IF \E i \in 1..Len(kyc) : kyc[i].vendor_id = u
    THEN CHOOSE i \in 1..Len(kyc) :
            /\ kyc[i].vendor_id = u
            /\ \A j \in 1..Len(kyc) : kyc[j].vendor_id = u => i <= j
    ELSE 0

\* ExistingStatus finding no row
ExistingStatusNone(u) == "none"

\* the guard query of submit_kyc: a committed row of vendor u whose status is
\* processing or approved (its status, "none" when there is no such row)
ExistingStatus(u) ==
    IF \E i \in 1..Len(kyc) : kyc[i].vendor_id = u /\ kyc[i].status \in {"processing", "approved"}
    THEN kyc[CHOOSE i \in 1..Len(kyc) :
                kyc[i].vendor_id = u /\ kyc[i].status \in {"processing", "approved"}].status
    ELSE "none"

\* the session's record: the committed row it loaded, or a new object
Load(u) == IF FirstOf(u) = 0 THEN VendorKYC(u) ELSE kyc[FirstOf(u)]

\* the table after db.commit() of session r: an INSERT of a new object, or an
\* UPDATE of the assigned columns of the loaded row
Flushed(r) ==
    IF r.id = 0
    THEN Append(kyc, r.rec)
    ELSE [kyc EXCEPT ![r.id] = [f \in Fields |-> IF f \in r.dirty THEN r.rec[f] ELSE @[f]]]

\* RolledBack writing the session's changes when the session is closed
RolledBackFlushed(r) == Flushed(r)

\* the vendor_kyc table after the session of r ends without a commit of its
\* changes to the record (the handler raised, get_db closes the session)
RolledBack(r) == kyc

\* Closed emptying the log
ClosedTruncated(log) == <<>>

\* the kyc_audit_logs table after a session that added no entry to it is
\* closed
Closed(log) == log

\* IntegrityError never raised: the table takes a second row of a vendor
IntegrityErrorNever(r) == FALSE

\* vendor_id is unique=True: the INSERT of a second row of a vendor fails
IntegrityError(r) == r.id = 0 /\ \E i \in 1..Len(kyc) : kyc[i].vendor_id = r.rec.vendor_id

\* the id of the session's record after commit and refresh
RecordId(r) == IF r.id = 0 THEN Len(kyc) + 1 ELSE r.id

-----------------------------------------------------------------------------
(* Names app/routes/kyc.py uses *)

\* timedelta_defined with `from datetime import timedelta` among the imports
timedelta_imported == TRUE

\* `timedelta` is bound in the module (its imports bring in datetime only)
timedelta_defined == FALSE

\* EmailService.send_trial_started_email(user, expiry_date) accepts the
\* keyword arguments email=, first_name=, expiry_date= of the call
email_call_accepted == FALSE

\* upload_document has a `request` to read request.client.host from
upload_request_defined == FALSE

\* the `request` of submit_kyc (a KYCVerificationRequest) has .client/.headers
submit_request_has_client == FALSE

-----------------------------------------------------------------------------
(* State *)

\* no function of the service has been called on its own
NoCall == [fn |-> "none"]

Init ==
    /\ kyc = <<>>
    /\ audit = <<>>
    /\ req = [s \in Slots |-> Idle]
    /\ calls = 0
    /\ call = NoCall

\* a request is accepted by the first free slot
Free(s) ==
    /\ calls < MaxCalls
    /\ req[s].pc = "idle"
    /\ \A t \in Slots : req[t].pc = "idle" => s <= t

\* the slot of a request that has ended: what it answered (pc "ok" is the
\* success response, "error" the HTTP 500 of the handler's except clause), the
\* record it worked on, whether its db.commit() of the record went through,
\* and the account attributes its session held at the end
Ended(r, pc, e, id, committed, acct) ==
    [Idle EXCEPT !.pc = pc, !.op = r.op, !.user = r.user, !.err = e, !.id = id,
                 !.committed = committed, !.acct = acct]

-----------------------------------------------------------------------------
(* upload_document *)

UrlField(d) == IF d = "front" THEN "id_front_url"
               ELSE IF d = "back" THEN "id_back_url" ELSE "selfie_url"

\* ExtractedData with the OCR call made for every kind of document
ExtractedDataOfAnyKind(d, ocr) == ocr

\* lines 56-59: extract_document_data is called for a front image only; ocr
\* is what it returns, Null for the {} of a failed or empty extraction
ExtractedData(d, ocr) == IF d = "front" THEN ocr ELSE Null

\* lines 34-79: the role and content-type checks, the S3 upload, the OCR call
\* for a front image, the query and the assignments in the session
UploadBegin(s, u, d, pre, ocr) ==
    /\ Free(s)
    /\ calls' = calls + 1
    /\ UNCHANGED <<kyc, audit, call>>
    /\ IF Role(u) # "vendor"
       THEN req' = [req EXCEPT ![s] = [Idle EXCEPT !.pc = "error", !.op = "upload",
                                            !.user = u, !.err = "forbidden"]]
       ELSE IF pre # "ok"
       THEN req' = [req EXCEPT ![s] = [Idle EXCEPT !.pc = "error", !.op = "upload",
                                            !.user = u, !.err = pre]]
       ELSE LET extracted == ExtractedData(d, ocr)
                base == [Load(u) EXCEPT ![UrlField(d)] = Some(FileUrl(u, d))]
            IN  req' = [req EXCEPT ![s] =
                    [Idle EXCEPT !.pc = "upload_commit", !.op = "upload", !.user = u,
                                 !.id = FirstOf(u),
                                 !.rec = IF extracted # Null
                                         THEN [base EXCEPT !.ocr_extracted_data = extracted]
                                         ELSE base,
                                 !.dirty = {UrlField(d)} \cup
                                           (IF extracted # Null THEN {"ocr_extracted_data"} ELSE {})]]

\* lines 81-107: db.commit(), db.refresh(), the audit entry and its commit
UploadCommit(s) ==
    /\ req[s].pc = "upload_commit"
    /\ UNCHANGED <<calls, call>>
    /\ IF IntegrityError(req[s])
       THEN /\ req' = [req EXCEPT ![s] = Ended(@, "error", "IntegrityError", @.id, FALSE, @.acct)]
            /\ kyc' = RolledBack(req[s])
            /\ audit' = Closed(audit)
       ELSE /\ kyc' = Flushed(req[s])
            /\ IF upload_request_defined
               THEN /\ audit' = Append(audit, KYCAuditLog(RecordId(req[s]), "document_upload", req[s].user))
                    /\ req' = [req EXCEPT ![s] = Ended(@, "ok", "none", RecordId(@), TRUE, @.acct)]
               ELSE /\ audit' = Closed(audit)
                    /\ req' = [req EXCEPT ![s] = Ended(@, "error", "NameError", RecordId(@), TRUE, @.acct)]

-----------------------------------------------------------------------------
(* submit_kyc *)

\* the promotional trial: timedelta(days=30)
TrialDays == 30

SubmitFields == {"id_number", "id_front_url", "id_back_url", "selfie_url", "status"}

AnalysisFields == {"face_match_score", "face_match_status", "document_verification_status",
                   "is_document_valid", "is_live_selfie", "risk_score", "status"}

\* lines 116-158: the role check, the guard on a processing or approved
\* record, the query (or the new object) and the submitted fields
SubmitBegin(s, u, n, back) ==
    /\ Free(s)
    /\ calls' = calls + 1
    /\ UNCHANGED <<kyc, audit, call>>
    /\ IF Role(u) # "vendor"
       THEN req' = [req EXCEPT ![s] = [Idle EXCEPT !.pc = "error", !.op = "submit",
                                            !.user = u, !.err = "forbidden"]]
       ELSE IF ExistingStatus(u) = "approved"
       THEN req' = [req EXCEPT ![s] = [Idle EXCEPT !.pc = "error", !.op = "submit",
                                            !.user = u, !.err = "already_approved"]]
       ELSE IF ExistingStatus(u) = "processing"
       THEN req' = [req EXCEPT ![s] = [Idle EXCEPT !.pc = "error", !.op = "submit",
                                            !.user = u, !.err = "already_processing"]]
       ELSE req' = [req EXCEPT ![s] =
                [Idle EXCEPT !.pc = "analyse", !.op = "submit", !.user = u,
                             !.id = FirstOf(u),
                             !.rec = [Load(u) EXCEPT
                                        !.id_number = Some(n),
                                        !.id_front_url = Some(FileUrl(u, "front")),
                                        !.id_back_url = IF back THEN Some(FileUrl(u, "back")) ELSE Null,
                                        !.selfie_url = Some(FileUrl(u, "selfie")),
                                        !.status = "processing"],
                             !.dirty = SubmitFields]]

\* lines 160-167: await perform_full_kyc_analysis(analysis_data); d, f and l
\* are what the providers answer
SubmitAnalyse(s, d, f, l) ==
    /\ req[s].pc = "analyse"
    /\ req' = [req EXCEPT ![s] = [@ EXCEPT !.pc = "decide", !.analysed = TRUE,
                                           !.analysis = perform_full_kyc_analysis(d, f, l)]]
    /\ UNCHANGED <<kyc, audit, calls, call>>

\* Decision leaving the status as submit_kyc set it at line 157
DecisionPending(a) == "processing"

\* Decision without the else branch: the record stays in processing
DecisionKeepsProcessing(a) == IF a.is_approved THEN "approved" ELSE "processing"

\* the status submit_kyc gives the record for an analysis (lines 179-180, 193-194)
Decision(a) == IF a.is_approved THEN "approved" ELSE "rejected"

\* RejectionReason giving the default of analysis.get('recommendations', ..)
RejectionReasonDefault(a, r) == Some(<<"kyc_verification_failed">>)

\* RejectionReason leaving the column as it is loaded
RejectionReasonKept(a, r) == r.rejection_reason

\* the rejection_reason of a record r that is not approved (line 195)
RejectionReason(a, r) == Some(a.recommendations)

\* lines 169-180 and 193-195: the analysis results and the decision, assigned
\* on the session's record
SubmitDecide(s) ==
    /\ req[s].pc = "decide"
    /\ LET a == req[s].analysis
           r == [req[s].rec EXCEPT
                    !.face_match_score = Some(a.face_comparison.score),
                    !.face_match_status = IF a.face_comparison.is_match
                                          THEN Some("verified") ELSE Some("failed"),
                    !.document_verification_status = IF a.document_verification.is_valid
                                                     THEN Some("verified") ELSE Some("failed"),
                    !.is_document_valid = a.document_verification.is_valid,
                    !.is_live_selfie = a.liveness_check.is_live,
                    !.risk_score = a.risk_score,
                    !.status = Decision(a)]
       IN  req' = [req EXCEPT ![s] =
                [@ EXCEPT !.pc = "persist",
                          !.rec = IF Decision(a) = "approved" THEN r
                                  ELSE [r EXCEPT !.rejection_reason = RejectionReason(a, r)],
                          !.dirty = @ \cup AnalysisFields \cup
                                    (IF Decision(a) = "approved" THEN {} ELSE {"rejection_reason"})]]
    /\ UNCHANGED <<kyc, audit, calls, call>>

\* lines 182-184: the trial on current_user; the expiry needs timedelta
Granted(r) == [kyc_verified |-> TRUE, subscription_plan |-> Some("premium_trial"),
               subscription_expires_at |-> IF timedelta_defined THEN Some(calls + TrialDays)
                                           ELSE r.acct.subscription_expires_at]

\* lines 197-219: db.commit(), db.refresh(), the audit entry and its commit
SubmitCommit(s, acct) ==
    IF IntegrityError(req[s])
    THEN /\ req' = [req EXCEPT ![s] = Ended(@, "error", "IntegrityError", @.id, FALSE, acct)]
         /\ kyc' = RolledBack(req[s])
         /\ audit' = Closed(audit)
    ELSE /\ kyc' = Flushed(req[s])
         /\ IF submit_request_has_client
            THEN /\ audit' = Append(audit, KYCAuditLog(RecordId(req[s]), "kyc_submitted", req[s].user))
                 /\ req' = [req EXCEPT ![s] = Ended(@, "ok", "none", RecordId(@), TRUE, acct)]
            ELSE /\ audit' = Closed(audit)
                 /\ req' = [req EXCEPT ![s] = Ended(@, "error", "AttributeError", RecordId(@), TRUE, acct)]

\* lines 181-219: the approval side effects, then the commit and the audit entry
SubmitPersist(s) ==
    /\ req[s].pc = "persist"
    /\ UNCHANGED <<calls, call>>
    /\ IF req[s].rec.status = "approved"
       THEN IF ~timedelta_defined
            THEN /\ req' = [req EXCEPT ![s] = Ended(@, "error", "NameError", @.id, FALSE, Granted(@))]
                 /\ kyc' = RolledBack(req[s])
                 /\ audit' = Closed(audit)
            ELSE IF ~email_call_accepted
            THEN /\ req' = [req EXCEPT ![s] = Ended(@, "error", "TypeError", @.id, FALSE, Granted(@))]
                 /\ kyc' = RolledBack(req[s])
                 /\ audit' = Closed(audit)
            ELSE SubmitCommit(s, Granted(req[s]))
       ELSE SubmitCommit(s, req[s].acct)

-----------------------------------------------------------------------------
(* app/database.py, get_db: the response is sent and the session closed *)

Respond(s) ==
    /\ req[s].pc \in {"ok", "error"}
    /\ req' = [req EXCEPT ![s] = Idle]
    /\ UNCHANGED <<kyc, audit, calls, call>>

-----------------------------------------------------------------------------

Next ==
    \/ \E s \in Slots, u \in Users, d \in DocTypes,
          pre \in {"ok", "bad_content_type", "s3_error"},
          ocr \in {Null, Some("ocr_fields")} : UploadBegin(s, u, d, pre, ocr)
    \/ \E s \in Slots : UploadCommit(s)
    \/ \E s \in Slots, u \in Users, b \in SubmitRequests : SubmitBegin(s, u, b.id_number, b.back)
    \/ \E s \in Slots, p \in ProviderAnswers : SubmitAnalyse(s, p[1], p[2], p[3])
    \/ \E s \in Slots : SubmitDecide(s)
    \/ \E s \in Slots : SubmitPersist(s)
    \/ \E s \in Slots : Respond(s)

Spec == Init /\ [][Next]_vars

-----------------------------------------------------------------------------
(* The handlers on a table that holds an approved record *)

\* a row of vendor_kyc with status 'approved' (app/models/kyc.py:38), as the
\* manual review recorded in reviewed_by / reviewed_at leaves it for vendor 1
ReviewedRecord ==
    [VendorKYC(1) EXCEPT
        !.id_number = Some("GHA-111111111-1"),
        !.id_front_url = Some(FileUrl(1, "front")),
        !.selfie_url = Some(FileUrl(1, "selfie")),
        !.ocr_extracted_data = Some("ocr_fields"),
        !.face_match_score = Some(920),
        !.face_match_status = Some("verified"),
        !.document_verification_status = Some("verified"),
        !.is_document_valid = TRUE,
        !.is_live_selfie = TRUE,
        !.risk_score = 4 * (RiskScale \div 10),
        !.status = "approved"]

\* the entry of the manual review in kyc_audit_logs (action 'verified' of
\* app/models/kyc.py:56; performed_by is nullable, 0 here)
ReviewedEntry == KYCAuditLog(1, "verified", 0)

InitReviewed ==
    /\ kyc = <<ReviewedRecord>>
    /\ audit = <<ReviewedEntry>>
    /\ req = [s \in Slots |-> Idle]
    /\ calls = 0
    /\ call = NoCall

SpecReviewed == InitReviewed /\ [][Next]_vars

-----------------------------------------------------------------------------
(* The functions of KYCService called on their own *)

\* the scores the methods can compute, in thousandths: face_recognition
\* gives max(0, 1 - distance); deepface gives 1 - distance for a cosine
\* distance in [0, 2]; Rekognition gives Similarity / 100 of a match of
\* similarity >= 70, or 0
FaceRecognitionScores == {0, 600, 750, 900}

DeepfaceScores == {0 - 1000, 0, 600, 900}

RekognitionScores == {0, 750, 900, 1000}

FaceInputs ==
    [raises : {{}} \cup {{m} : m \in FaceSteps},
     face_recognition : {Null} \cup {Some(v) : v \in FaceRecognitionScores},
     deepface : {Null} \cup {Some(v) : v \in DeepfaceScores},
     aws_rekognition : {Some(v) : v \in RekognitionScores}]

\* the dictionaries calculate_risk_score and generate_recommendations read
DocResults == [is_valid : BOOLEAN, has_confidence : BOOLEAN, confidence : {0, 69, 70, 92}]

FaceResults == [is_match : BOOLEAN, score : {0, 699, 700, 799, 800, 920}]

LiveResults == [is_live : BOOLEAN]

IdNumbers == {Null, Some(""), Some("12345"), Some("123456"), Some("GHA-111111111-1")}

\* the TextDetections Rekognition returns: up to two detections; the
\* confidences are even, so that the mean of two is a whole number
TextDetection == [Type : {"LINE", "WORD"}, Confidence : {60, 80, 82, 96}]

TextDetectionLists ==
    {<<>>} \cup { <<a>> : a \in TextDetection } \cup { <<a, b>> : a, b \in TextDetection }

FrontInputs == [raises : BOOLEAN, TextDetections : TextDetectionLists]

BackInputs == {"none", "fetched", "raises"}

\* the selfie as check_liveness sees it: error is OpenCV missing or an
\* exception, the rest are the four liveness_checks
LiveInputs == [error : BOOLEAN, single_face : BOOLEAN, image_quality : BOOLEAN,
               brightness_ok : BOOLEAN, face_size_ok : BOOLEAN]

\* each call is made on the service as it is constructed
VerifyDocumentAuthenticity(front, back) ==
    /\ call = NoCall
    /\ call' = [fn |-> "verify_document_authenticity", front |-> front, back |-> back,
                out |-> verify_document_authenticity(DocumentAnswer(front, back))]
    /\ UNCHANGED <<kyc, audit, req, calls>>

CheckLiveness(l) ==
    /\ call = NoCall
    /\ call' = [fn |-> "check_liveness", l |-> l, out |-> check_liveness(l)]
    /\ UNCHANGED <<kyc, audit, req, calls>>

CompareFaces(f) ==
    /\ call = NoCall
    /\ call' = [fn |-> "compare_faces", f |-> f, out |-> compare_faces(f)]
    /\ UNCHANGED <<kyc, audit, req, calls>>

CalculateRiskScore(doc, face, live, n) ==
    /\ call = NoCall
    /\ call' = [fn |-> "calculate_risk_score", doc |-> doc, face |-> face, live |-> live,
                id_number |-> n, out |-> calculate_risk_score(doc, face, live, n)]
    /\ UNCHANGED <<kyc, audit, req, calls>>

GenerateRecommendations(doc, face, live, ok) ==
    /\ call = NoCall
    /\ call' = [fn |-> "generate_recommendations", doc |-> doc, face |-> face, live |-> live,
                is_approved |-> ok, out |-> generate_recommendations(doc, face, live, ok)]
    /\ UNCHANGED <<kyc, audit, req, calls>>

NextService ==
    \/ \E front \in FrontInputs, back \in BackInputs : VerifyDocumentAuthenticity(front, back)
    \/ \E l \in LiveInputs : CheckLiveness(l)
    \/ \E f \in FaceInputs : CompareFaces(f)
    \/ \E doc \in DocResults, face \in FaceResults, live \in LiveResults, n \in IdNumbers :
          CalculateRiskScore(doc, face, live, n)
    \/ \E doc \in DocResults, face \in FaceResults, live \in LiveResults, ok \in BOOLEAN :
          GenerateRecommendations(doc, face, live, ok)

SpecService == Init /\ [][NextService]_vars

-----------------------------------------------------------------------------
(* Claims *)

\* the KYC records there are: the committed rows and the records the
\* requests in flight hold in their sessions
Records ==
    { kyc[i] : i \in 1..Len(kyc) } \cup
    { req[s].rec : s \in { x \in Slots : req[x].pc \in {"upload_commit", "analyse", "decide", "persist"} } }

InFlightSubmit(s) == req[s].op = "submit" /\ req[s].pc \in {"analyse", "decide", "persist"}

\* C1: every KYC record whose status is 'approved', committed or decided in
\* a request's session, has face_match_status = 'verified', is_document_valid
\* = true, is_live_selfie = true and risk_score <= 0.5.
C1_ApprovedRecordsVerified ==
    \A r \in Records :
        r.status = "approved" =>
            /\ r.face_match_status = Some("verified")
            /\ r.is_document_valid
            /\ r.is_live_selfie
            /\ r.risk_score * 2 <= RiskScale

\* a submission has been decided 'approved'
C1_Witness == \E s \in Slots : req[s].pc = "persist" /\ req[s].rec.status = "approved"

BorneByOtherApproved(u, n) ==
    \E r \in Records : r.status = "approved" /\ r.vendor_id # u /\ r.id_number = n

C4_DecisionMatchesAnalysis ==
    \A s \in Slots :
        /\ req[s].analysed =>
              (req[s].analysis.is_approved <=>
                  /\ req[s].analysis.document_verification.is_valid
                  /\ req[s].analysis.face_comparison.is_match
                  /\ req[s].analysis.liveness_check.is_live
                  /\ req[s].analysis.risk_score * 2 <= RiskScale)
        /\ req[s].pc = "persist" =>
              /\ req[s].analysis.is_approved => req[s].rec.status = "approved"
              /\ ~req[s].analysis.is_approved => req[s].rec.status = "rejected"

\* one submission decided 'approved' and one decided 'rejected'
C4_Witness ==
    \E s, t \in Slots :
        /\ req[s].pc = "persist" /\ req[s].analysis.is_approved /\ req[s].rec.status = "approved"
        /\ req[t].pc = "persist" /\ ~req[t].analysis.is_approved /\ req[t].rec.status = "rejected"

AuditAction(op) == IF op = "upload" THEN "document_upload" ELSE "kyc_submitted"

\* C7: the step in which a request that has committed a change of a KYC
\* record ends, with success or with an error, adds exactly one audit entry
\* for that change.
C7_AuditEntryForEveryCommit ==
    [][\A s \in Slots :
          (req[s].pc \in {"upload_commit", "persist"} /\ req'[s].pc \in {"ok", "error"}
             /\ req'[s].committed)
              => audit' = Append(audit, KYCAuditLog(req'[s].id, AuditAction(req'[s].op), req'[s].user))]_vars

\* C9: a record whose committed status is 'approved' keeps that status in
\* every step of upload_document and submit_kyc.
C9_ApprovedIsTerminal ==
    [][\A i \in 1..Len(kyc) :
          kyc[i].status = "approved" => (i <= Len(kyc') /\ kyc'[i].status = "approved")]_vars

\* on an approved record, an upload of its vendor has been committed and a
\* submission of its vendor has been refused
C9_Witness ==
    \E s, t \in Slots, i \in 1..Len(kyc) :
        /\ kyc[i].status = "approved"
        /\ req[s].op = "upload" /\ req[s].committed /\ req[s].id = i
        /\ req[t].op = "submit" /\ req[t].user = kyc[i].vendor_id
        /\ req[t].err = "already_approved"

\* C10 as stated: a submission of a vendor whose committed record is
\* 'rejected' is carried by a fresh record, not by the rejected row.
C10_RejectedRowNotReused ==
    \A s \in Slots : \A i \in 1..Len(kyc) :
        (InFlightSubmit(s) /\ kyc[i].vendor_id = req[s].user /\ kyc[i].status = "rejected")
            => req[s].id # i

\* C10 as amended: submit_kyc of a vendor who owns a record, rejected or not,
\* loads that row and puts it in 'processing' in its session; its commit
\* writes onto the row and adds none, and no vendor ever owns two rows.
C10_RejectedRowReused ==
    [][/\ \A s \in Slots : \A i \in 1..Len(kyc) :
             (req[s].pc = "idle" /\ req'[s].pc = "analyse" /\ kyc[i].vendor_id = req'[s].user)
                 => req'[s].id = i /\ req'[s].rec.status = "processing"
       /\ \A s \in Slots :
             (req[s].pc = "persist" /\ req'[s].pc # "persist" /\ req[s].id # 0)
                 => Len(kyc') = Len(kyc)
       /\ \A i, j \in 1..Len(kyc') : kyc'[i].vendor_id = kyc'[j].vendor_id => i = j]_vars

\* a resubmission in flight on the row that is committed as 'rejected'
C10_Witness ==
    \E s \in Slots :
        /\ InFlightSubmit(s) /\ req[s].id \in 1..Len(kyc)
        /\ kyc[req[s].id].status = "rejected" /\ kyc[req[s].id].vendor_id = req[s].user

C12_RejectionReasonIffRejected ==
    \A i \in 1..Len(kyc) : (kyc[i].rejection_reason # Null) <=> (kyc[i].status = "rejected")

\* a resubmission on a row committed as 'rejected' with its reason has been
\* decided 'approved' in its session
C12_Witness ==
    \E s \in Slots :
        /\ req[s].pc = "persist" /\ req[s].rec.status = "approved"
        /\ req[s].id \in 1..Len(kyc)
        /\ kyc[req[s].id].status = "rejected" /\ kyc[req[s].id].rejection_reason # Null

\* C13: the step that ends a submit_kyc call for which the document is valid,
\* the faces match, the selfie is live and no other vendor's approved record
\* bears the id_number commits the record as 'approved' with risk_score <=
\* 0.5, marks the account KYC-verified and sets subscription_expires_at to
\* the decision time plus 30 days.
C13_ValidSubmissionApproved ==
    [][\A s \in Slots :
          (/\ req[s].op = "submit" /\ req[s].pc = "persist" /\ req'[s].pc \in {"ok", "error"}
           /\ req[s].analysis.document_verification.is_valid
           /\ req[s].analysis.face_comparison.is_match
           /\ req[s].analysis.liveness_check.is_live
           /\ ~BorneByOtherApproved(req[s].user, req[s].rec.id_number))
              => /\ req'[s].committed
                 /\ req'[s].id \in 1..Len(kyc')
                 /\ kyc'[req'[s].id].status = "approved"
                 /\ kyc'[req'[s].id].risk_score * 2 <= RiskScale
                 /\ req'[s].acct.kyc_verified
                 /\ req'[s].acct.subscription_expires_at = Some(calls + TrialDays)]_vars

\* C14: after the decision of a submission whose face comparison returned
\* its hard failure, the record is in status 'processing'.
C14_HardFailureStaysProcessing ==
    \A s \in Slots :
        (req[s].pc = "persist" /\ req[s].analysis.face_comparison.error)
            => req[s].rec.status = "processing"

FaceMethods == {"face_recognition", "deepface", "aws_rekognition"}

\* the place of a method in the order compare_faces runs them
MethodRank(m) == IF m = "face_recognition" THEN 1 ELSE IF m = "deepface" THEN 2 ELSE 3

\* the methods that have produced a score in a call of compare_faces on f:
\* those that were run and returned (none when the pool gave up before the
\* download or the download raised)
Produced(f) ==
    IF (f.face_recognition = Null /\ f.deepface = Null) \/ "download" \in f.raises
    THEN {}
    ELSE { m \in FaceMethods :
             /\ f[m] # Null
             /\ \A k \in FaceMethods :
                   (MethodRank(k) <= MethodRank(m) /\ f[k] # Null) => k \notin f.raises }

\* a method is unavailable, or raised when it was run
MethodLost(f) ==
    \E m \in FaceMethods :
        \/ f[m] = Null
        \/ /\ m \in f.raises
           /\ \A k \in FaceMethods :
                 (MethodRank(k) < MethodRank(m) /\ f[k] # Null) => k \notin f.raises

\* the sum of the scores of the methods in M
ScoreSum(f, M) ==
    (IF "face_recognition" \in M THEN f.face_recognition[1] ELSE 0)
    + (IF "deepface" \in M THEN f.deepface[1] ELSE 0)
    + (IF "aws_rekognition" \in M THEN f.aws_rekognition[1] ELSE 0)

\* x is the mean of the scores of the methods in M, to the nearest thousandth
IsMeanOf(x, f, M) ==
    LET n == Cardinality(M)
        d == n * x - ScoreSum(f, M)
    IN  n > 0 /\ 2 * d <= n /\ 0 - n <= 2 * d

IsHardFailure(out) == out.error /\ out.score = 0 /\ ~out.is_match

\* C15: compare_faces returns its hard failure if and only if no method
\* produced a score; when a method is unavailable or raises while another
\* produces a score, the result is the mean of the produced scores with
\* degraded = true.
C15_HardFailureIffNoScore ==
    call.fn = "compare_faces" =>
        /\ IsHardFailure(call.out) <=> (Produced(call.f) = {})
        /\ (MethodLost(call.f) /\ Produced(call.f) # {}) =>
              /\ ~call.out.error
              /\ IsMeanOf(call.out.score, call.f, Produced(call.f))
              /\ call.out.degraded = Some(TRUE)

\* the methods whose library is available
Available(f) == { m \in FaceMethods : f[m] # Null }

\* C16: a result of compare_faces that is not its hard failure carries the
\* unweighted mean of the scores of exactly the methods that responded (to
\* the three decimals the function returns), and is_match is true exactly
\* when that mean is >= 0.75.
C16_ScoreIsMeanOfResponding ==
    (call.fn = "compare_faces" /\ ~call.out.error) =>
        /\ Produced(call.f) = Available(call.f)
        /\ IsMeanOf(call.out.score, call.f, Available(call.f))
        /\ call.out.is_match <=>
              (ScoreSum(call.f, Available(call.f)) * 4 >= 3 * 1000 * Cardinality(Available(call.f)))

\* scores 0.6 and 0.9, the third method unavailable: 0.75 and a match
C16_Witness ==
    /\ call.fn = "compare_faces"
    /\ call.f.face_recognition = Some(600) /\ call.f.deepface = Null
    /\ call.f.aws_rekognition = Some(900)
    /\ ~call.out.error /\ call.out.score = 750 /\ call.out.is_match

\* C17: the score compare_faces returns lies in [0, 1].
C17_ScoreInUnitInterval ==
    call.fn = "compare_faces" => (call.out.score >= 0 /\ call.out.score <= 1000)

\* the penalty terms of the claim, in tenths, 0 for a term that does not
\* trigger: document, face, liveness, ID number
PenaltyTerms(c) ==
    <<IF ~c.doc.is_valid THEN 5
      ELSE IF c.doc.has_confidence /\ c.doc.confidence >= 70 THEN 0 ELSE 3,
      IF ~c.face.is_match THEN 6 ELSE IF c.face.score < 800 THEN 2 ELSE 0,
      IF ~c.live.is_live THEN 7 ELSE 0,
      IF c.id_number = Null THEN 4 ELSE IF Len(c.id_number[1]) < 6 THEN 4 ELSE 0>>

C19_InvalidDocumentRiskIsHalf ==
    \A s \in Slots :
        (/\ req[s].pc = "persist"
         /\ req[s].rec.id_number # Null /\ Len(req[s].rec.id_number[1]) >= 6
         /\ ~req[s].analysis.document_verification.is_valid
         /\ req[s].analysis.face_comparison.is_match
         /\ req[s].analysis.face_comparison.score >= 800
         /\ req[s].analysis.liveness_check.is_live)
            => req[s].rec.risk_score * 2 = RiskScale

\* the place of a message in the order of the claim
MessageRank(m) ==
    IF m = "document_invalid" THEN 1 ELSE IF m = "face_mismatch" THEN 2
    ELSE IF m = "not_live" THEN 3 ELSE 4

\* the signals of a call that failed
FailingSignals(c) ==
    (IF ~c.doc.is_valid THEN {"document_invalid"} ELSE {})
    \cup (IF ~c.face.is_match THEN {"face_mismatch"} ELSE {})
    \cup (IF ~c.live.is_live THEN {"not_live"} ELSE {})
    \cup (IF c.face.score < 700 THEN {"low_confidence"} ELSE {})

\* C20: generate_recommendations returns the messages of exactly the failing
\* signals in the order document, face match, liveness, low match confidence,
\* and the 'all checks passed' message exactly when no signal failed and the
\* submission is approved.
C20_RecommendationsOrdered ==
    call.fn = "generate_recommendations" =>
        /\ (call.out = <<"all_checks_passed">>) <=> (FailingSignals(call) = {} /\ call.is_approved)
        /\ call.out # <<"all_checks_passed">> =>
              /\ { call.out[i] : i \in 1..Len(call.out) } = FailingSignals(call)
              /\ \A i, j \in 1..Len(call.out) :
                    i < j => MessageRank(call.out[i]) < MessageRank(call.out[j])

\* every signal failed: the four messages in their order
C20_Witness ==
    /\ call.fn = "generate_recommendations"
    /\ call.out = <<"document_invalid", "face_mismatch", "not_live", "low_confidence">>

LineCount(c) ==
    Cardinality({ i \in 1..Len(c.front.TextDetections) : c.front.TextDetections[i].Type = "LINE" })

\* the sum of their confidences
LineConfidenceSum(c) ==
    LET d == c.front.TextDetections
    IN  (IF Len(d) >= 1 /\ d[1].Type = "LINE" THEN d[1].Confidence ELSE 0)
        + (IF Len(d) >= 2 /\ d[2].Type = "LINE" THEN d[2].Confidence ELSE 0)

\* the best answers of the two other checks
BestFace == [raises |-> {}, face_recognition |-> Some(900), deepface |-> Null, aws_rekognition |-> Some(940)]

BestLive == [error |-> FALSE, single_face |-> TRUE, image_quality |-> TRUE,
             brightness_ok |-> TRUE, face_size_ok |-> TRUE]

\* C22: verify_document_authenticity returns is_valid = true exactly when
\* LINE detections were found on the front image and their mean confidence
\* is > 80, with or without a back image; a provider or download error gives
\* is_valid = false without a confidence, and no approval.
C22_DocumentValidity ==
    call.fn = "verify_document_authenticity" =>
        LET failed == call.front.raises \/ call.back = "raises"
        IN  /\ call.out.is_valid <=>
                  (~failed /\ LineCount(call) > 0 /\ LineConfidenceSum(call) > 80 * LineCount(call))
            /\ call.back # "raises" =>
                  call.out = verify_document_authenticity(DocumentAnswer(call.front, "none"))
            /\ failed =>
                  /\ ~call.out.is_valid /\ ~call.out.has_confidence
                  /\ ~perform_full_kyc_analysis(DocumentAnswer(call.front, call.back),
                                                BestFace, BestLive).is_approved

\* valid without a back image; and a download error of the back image
C22_Witness ==
    /\ call.fn = "verify_document_authenticity"
    /\ call.back = "none" /\ ~call.front.raises
    /\ call.front.TextDetections = <<[Type |-> "LINE", Confidence |-> 82],
                                     [Type |-> "WORD", Confidence |-> 60]>>
    /\ call.out.is_valid

\* all four liveness checks of a call pass
AllChecksPass(l) == l.single_face /\ l.image_quality /\ l.brightness_ok /\ l.face_size_ok

\* C23 as stated: check_liveness returns is_live = true exactly when the
\* four checks pass, and its confidence label is 'high' or 'low' in every
\* outcome.
C23_LabelHighOrLow ==
    call.fn = "check_liveness" =>
        /\ call.out.is_live <=> (~call.l.error /\ AllChecksPass(call.l))
        /\ call.out.confidence \in {"high", "low"}

\* C23 as amended: is_live = true exactly when the four checks pass; the
\* label is 'high' when live, 'low' when a check failed and 'unknown' when
\* the check could not be run.
C23_LabelHighLowOrUnknown ==
    call.fn = "check_liveness" =>
        /\ call.out.is_live <=> (~call.l.error /\ AllChecksPass(call.l))
        /\ call.out.confidence =
              (IF call.l.error THEN "unknown" ELSE IF AllChecksPass(call.l) THEN "high" ELSE "low")

\* the check could not be run
C23_Witness ==
    call.fn = "check_liveness" /\ call.l.error /\ ~call.out.is_live
        /\ call.out.confidence = "unknown"

\* C24: OCR extraction belongs to a front-image upload only, never to
\* submit_kyc; an upload whose extraction came back empty still commits the
\* document reference on the vendor's record and leaves the OCR column as it
\* was; a later submission is refused for the role or for an approved or
\* processing record only, and is decided by its analysis.
C24_ExtractionAtFrontUploadOnly ==
    [][\A s \in Slots :
          /\ "ocr_extracted_data" \in req'[s].dirty
                => req'[s].op = "upload" /\ "id_front_url" \in req'[s].dirty
          /\ (/\ req[s].pc = "upload_commit" /\ req'[s].committed
              /\ "ocr_extracted_data" \notin req[s].dirty)
                => /\ \A f \in req[s].dirty : kyc'[req'[s].id][f] = req[s].rec[f] /\ req[s].rec[f] # Null
                   /\ kyc'[req'[s].id].ocr_extracted_data =
                         (IF req[s].id = 0 THEN Null ELSE kyc[req[s].id].ocr_extracted_data)
          /\ (req[s].pc = "idle" /\ req'[s].op = "submit" /\ req'[s].pc = "error")
                => req'[s].err \in {"forbidden", "already_approved", "already_processing"}
          /\ (req[s].op = "submit" /\ req[s].pc = "decide" /\ req'[s].pc = "persist")
                => req'[s].rec.status = (IF req[s].analysis.is_approved THEN "approved" ELSE "rejected")]_vars

\* a front image was committed without extracted fields, and a submission of
\* that vendor has been decided since
C24_Witness ==
    \E s, t \in Slots :
        /\ req[s].op = "upload" /\ req[s].committed /\ req[s].id \in 1..Len(kyc)
        /\ kyc[req[s].id].id_front_url # Null
        /\ kyc[req[s].id].ocr_extracted_data = Null
        /\ req[t].op = "submit" /\ req[t].pc = "persist"
        /\ req[t].user = req[s].user /\ req[t].id = req[s].id
        /\ req[t].rec.ocr_extracted_data = Null

\* C25: each vendor owns at most one committed KYC record, hence at most one
\* that is not terminal, whatever the interleaving of the calls.
C25_OneRecordPerVendor ==
    \A i, j \in 1..Len(kyc) : kyc[i].vendor_id = kyc[j].vendor_id => i = j

\* of two concurrent first calls of a vendor, the second to commit was refused
C25_Witness ==
    \E s \in Slots :
        /\ req[s].pc = "error" /\ req[s].err = "IntegrityError"
        /\ \E i \in 1..Len(kyc) : kyc[i].vendor_id = req[s].user

C27_AuditLogOnlyGrows ==
    [][/\ Len(audit') >= Len(audit)
       /\ \A i \in 1..Len(audit) : audit'[i] = audit[i]]_vars

\* the log holds an entry, and a call has committed a record and ended
C27_Witness ==
    /\ audit # <<>>
    /\ \E s \in Slots : req[s].pc = "error" /\ req[s].committed
    /\ \E s \in Slots : req[s].pc = "error" /\ ~req[s].committed /\ req[s].err = "already_approved"

\* C28: a document that verify_document_authenticity finds valid has a
\* confidence > 80; when the document is valid, the faces match and the
\* selfie is live, calculate_risk_score returns at most 0.4 (only the 0.2
\* low-score and the 0.4 id-number penalties trigger for such a document),
\* so the risk conjunct of the approval (risk <= 0.5) holds.
C28_PassingChecksRiskAtMostFourTenths ==
    /\ (call.fn = "verify_document_authenticity" /\ call.out.is_valid)
          => call.out.has_confidence /\ call.out.confidence > 80
    /\ (/\ call.fn = "calculate_risk_score"
        /\ call.doc.is_valid /\ call.face.is_match /\ call.live.is_live)
          => /\ 10 * call.out <= 4 * RiskScale
             /\ 2 * call.out <= RiskScale
             /\ IsApproved(call.doc, call.face, call.live, call.out)
             /\ (call.doc.has_confidence /\ call.doc.confidence > 80)
                   => \E k \in 1..4 : call.out = k * (RiskScale \div 10)

\* both penalties that can then trigger do: a match scored under 0.8 and an
\* id_number that is missing
C28_Witness ==
    /\ call.fn = "calculate_risk_score"
    /\ call.doc.is_valid /\ call.doc.has_confidence /\ call.doc.confidence > 80
    /\ call.face.is_match /\ call.face.score < 800 /\ call.live.is_live
    /\ call.id_number = Null
    /\ 10 * call.out = 3 * RiskScale

\* C29: no committed record has status 'processing', and no call is refused
\* by the 'KYC is already being processed' guard.
C29_ProcessingNeverCommitted ==
    /\ \A i \in 1..Len(kyc) : kyc[i].status # "processing"
    /\ \A s \in Slots : req[s].err # "already_processing"

\* two submissions of one vendor are in flight, the record of each in
\* 'processing' in its session
C29_Witness ==
    \E s, t \in Slots :
        /\ s # t /\ req[s].user = req[t].user
        /\ req[s].op = "submit" /\ req[s].pc = "analyse" /\ req[s].rec.status = "processing"
        /\ req[t].op = "submit" /\ req[t].pc = "analyse" /\ req[t].rec.status = "processing"

\* C30: a submit_kyc call that ends with an error and without a commit of
\* its record leaves the committed records and the audit log as they were
\* before the call; so does every step of the call before its commit.
C30_FailedSubmitPersistsNothing ==
    [][\A s \in Slots :
          (/\ req'[s].op = "submit" /\ req'[s] # req[s]
           /\ \/ req'[s].pc \in {"analyse", "decide", "persist"}
              \/ req[s].pc # "error" /\ req'[s].pc = "error" /\ ~req'[s].committed)
              => kyc' = kyc /\ audit' = audit]_vars

\* an approving submission ended in the approval side effects, the trial
\* assigned in its session
C30_Witness ==
    \E s \in Slots :
        /\ req[s].op = "submit" /\ req[s].pc = "error" /\ req[s].err = "NameError"
        /\ ~req[s].committed /\ req[s].acct.kyc_verified
        /\ \A i \in 1..Len(kyc) : kyc[i].vendor_id # req[s].user

====
